---- MODULE Spec2Model ----
(***************************************************************************)
(* Model of Na6k/Fast_api_with_mongo: the generic MongoDB CRUD repository  *)
(* (src/database/repositories/crud.py), the user repository and service    *)
(* built on it, and the Redis cache client (src/common/cache/redis.py).    *)
(*                                                                         *)
(* Every coroutine runs up to its next await in one step, so each action   *)
(* below is one request executed by the store plus the Python code that    *)
(* follows it up to the next request or the return.                        *)
(***************************************************************************)
EXTENDS Integers, Sequences, FiniteSets, TLC

VARIABLES
    store,      \* the users collection, in the store's natural (insertion) order
    nextId,     \* counter behind the ObjectIds the store assigns
    pc,         \* per caller: where its coroutine is suspended
    loc,        \* per caller: the local variables of the running call
    ret,        \* the last call that returned: result and final frame
    budget,     \* number of calls that may still be started
    client,     \* RedisCache._client: "None", or the Redis object, "open" or "closed"
    pool,       \* RedisCache._pool, likewise
    kv,         \* the Redis keyspace: key -> stored bytes and time to live
    scan,       \* a clear_pattern between its scan and its DEL: the keys it collected
    cret,       \* the last cache call that ended: result or exception
    cbudget,    \* number of cache calls that may still be started
    since,      \* per key: the ttl argument of the last write and the seconds since (history)
    released,   \* aclose() calls received by the current client and pool (history)
    app         \* the process lifespan: where it is, and its MongoDB client

repoVars == <<store, nextId, pc, loc, ret, budget>>

cacheVars == <<client, pool, kv, scan, cret, cbudget, since, released>>

vars ==
    <<store, nextId, pc, loc, ret, budget, client, pool, kv, scan, cret, cbudget, since, released,
      app>>

-----------------------------------------------------------------------------
(* Bounds *)

MaxInit == 1        \* the collection starts with at most this many documents
MaxId == 2          \* at most this many documents are ever inserted
MaxSeqCalls == 2    \* calls started by a caller running alone
MaxCacheCalls == 3  \* cache calls started
MaxTtl == 2         \* largest time to live passed to the cache, in seconds

Callers == {"c1", "c2"}

\* the concurrent callers make one call each, overlapping or one after the other
MaxCalls == Cardinality(Callers)

-----------------------------------------------------------------------------
(* Values.  Field values are strings; ABSENT marks a field a mapping does   *)
(* not carry.  An identifier is tagged with its Python type.                *)

ABSENT == "<absent>"

Range(s) == {s[i] : i \in 1..Len(s)}

Fields == {"client_id", "active"}

NoId == [t |-> "absent", v |-> 0]

ObjectId(n) == [t |-> "ObjectId", v |-> n]

\* str(ObjectId(..)) and str(str): the identifier as a string
str(id) == [t |-> "str", v |-> id.v]

EmptyMap == [_id |-> NoId, client_id |-> ABSENT, active |-> ABSENT]

\* bool(mapping): a dict is truthy when it has at least one key
NonEmpty(m) == m # EmptyMap

ClientIds == {"a", "b"}

\* request bodies of POST /user/create: a field the caller leaves unset is ABSENT
Bodies ==
    {[client_id |-> "a", active |-> "True"],
     [client_id |-> "b", active |-> "True"],
     [client_id |-> "a", active |-> "None"],
     [client_id |-> ABSENT, active |-> ABSENT]}

\* UserDTO(**body): an unset field takes its default, client_id: str = "" and
\* active: Optional[bool] = False
Validate(body) ==
    [client_id |-> IF body.client_id = ABSENT THEN "" ELSE body.client_id,
     active |-> IF body.active = ABSENT THEN "False" ELSE body.active]

\* the UserDTO instances (api/dto/user.py) the bodies give
UserDTO == {Validate(body) : body \in Bodies}

\* user.model_dump(exclude_none=True): fields whose value is None are dropped
model_dump(user) ==
    [_id |-> NoId,
     client_id |-> user.client_id,
     active |-> IF user.active = "None" THEN ABSENT ELSE user.active]

ByClient(k) == [EmptyMap EXCEPT !.client_id = k]

ByActive(b) == [EmptyMap EXCEPT !.active = b]

Queries == {EmptyMap, ByClient("a"), ByActive("True")}

Patches ==
    {[EmptyMap EXCEPT !.active = "False"],
     [EmptyMap EXCEPT !.client_id = "b"],
     [EmptyMap EXCEPT !._id = ObjectId(1)]}

-----------------------------------------------------------------------------
(* The document store (pymongo/motor collection semantics)                  *)

\* a document satisfies an equality query; {"_id": {"$in": ids}} is tagged "in"
Matches(d, q) ==
    /\ CASE q._id.t = "absent" -> TRUE
         [] q._id.t = "in" -> d._id \in q._id.v
         [] OTHER -> d._id = q._id
    /\ \A f \in Fields : q[f] # ABSENT => d[f] = q[f]

\* collection.find(query): the matching documents in natural order
Find(st, q) == SelectSeq(st, LAMBDA d : Matches(d, q))

\* cursor.skip(offset).limit(limit); -1 stands for None
SkipLimit(s, offset, limit) ==
    LET from == IF offset = -1 THEN 1 ELSE offset + 1
        rest == SubSeq(s, from, Len(s))
    IN  IF limit = -1 \/ limit = 0 THEN rest
        ELSE SubSeq(rest, 1, IF limit < Len(rest) THEN limit ELSE Len(rest))

\* position of the first document matching q, 0 when there is none
FirstMatch(st, q) ==
    IF \E i \in 1..Len(st) : Matches(st[i], q)
    THEN CHOOSE i \in 1..Len(st) :
            /\ Matches(st[i], q)
            /\ \A j \in 1..(i - 1) : ~Matches(st[j], q)
    ELSE 0

\* (mutant) replace_one semantics: the fields the patch does not name are lost
MergeReplaces(d, p) == [_id |-> d._id, client_id |-> p.client_id, active |-> p.active]

\* {"$set": update} applied to one document: named fields are overwritten
Merge(d, p) ==
    [_id |-> IF p._id.t # "absent" THEN p._id ELSE d._id,
     client_id |-> IF p.client_id # ABSENT THEN p.client_id ELSE d.client_id,
     active |-> IF p.active # ABSENT THEN p.active ELSE d.active]

\* (mutant) a store that lets $set overwrite _id
IdNeverConflicts(d, p) == FALSE

\* the store refuses a $set that would change the immutable _id
IdConflict(d, p) == p._id.t # "absent" /\ p._id # d._id

\* collection.insert_one(values): appended under a fresh ObjectId
InsertOne(st, id, values) == Append(st, [values EXCEPT !._id = ObjectId(id)])

\* (mutant) delete_one: only the first match is removed
DeleteFirstOnly(st, q) ==
    LET M == {i \in 1..Len(st) : Matches(st[i], q)}
    IN  IF M = {} THEN st
        ELSE LET m == CHOOSE i \in M : \A j \in M : i <= j
             IN  SubSeq(st, 1, m - 1) \o SubSeq(st, m + 1, Len(st))

\* collection.delete_many(query)
DeleteMany(st, q) == SelectSeq(st, LAMBDA d : ~Matches(d, q))

\* collection.update_many(query, {"$set": update}): the collection afterwards
UpdateManyDocs(st, q, p) ==
    [i \in 1..Len(st) |-> IF Matches(st[i], q) THEN Merge(st[i], p) ELSE st[i]]

\* (mutant) result.matched_count: every matched document, changed or not
MatchedCount(st, q, p) == Cardinality({i \in 1..Len(st) : Matches(st[i], q)})

\* result.modified_count: documents the update actually changed
ModifiedCount(st, q, p) ==
    Cardinality({i \in 1..Len(st) : Matches(st[i], q) /\ Merge(st[i], p) # st[i]})

-----------------------------------------------------------------------------
(* Results and frames *)

NoDoc == EmptyMap

RNull == [kind |-> "null", doc |-> NoDoc, docs |-> <<>>, n |-> 0]
RDoc(d) == [kind |-> "doc", doc |-> d, docs |-> <<>>, n |-> 0]
RDocs(s) == [kind |-> "docs", doc |-> NoDoc, docs |-> s, n |-> 0]
RInt(k) == [kind |-> "int", doc |-> NoDoc, docs |-> <<>>, n |-> k]
\* an exception leaves the call: n is unused
RRaise(exc) == [kind |-> exc, doc |-> NoDoc, docs |-> <<>>, n |-> 0]

Raised(r) == r.kind \in {"TypeError", "WriteError"}

Frame ==
    [op |-> "none", query |-> EmptyMap, update |-> EmptyMap, data |-> <<>>,
     i |-> 0, modified_count |-> 0, inserted_id |-> NoId, inserted_ids |-> {},
     deleted_documents |-> <<>>, deleted_count |-> 0,
     \* history, read by the properties only: the collection when the call
     \* made its first request, the position update_one matched, and the
     \* batch items update_many sent to the store
     store0 |-> <<>>, target |-> 0, sent |-> {}]

\* prev: the operation that returned before this one (history)
NoRet == [op |-> "none", res |-> RNull, frame |-> Frame, prev |-> "none"]

\* (mutant) select without document["_id"] = str(document["_id"])
selectRaw(st, q) ==
    LET M == {i \in 1..Len(st) : Matches(st[i], q)}
    IN  IF M = {} THEN RNull ELSE RDoc(st[CHOOSE i \in M : \A j \in M : i <= j])

\* MongoDBCRUDRepository.select: first match with _id as a string, or None
select(st, q) ==
    LET i == FirstMatch(st, q)
    IN  IF i # 0 THEN RDoc([st[i] EXCEPT !._id = str(st[i]._id)]) ELSE RNull

\* MongoDBCRUDRepository.select_many: the documents as the cursor yields them
select_many(st, q, offset, limit) == SkipLimit(Find(st, q), offset, limit)

\* collections left behind by earlier create calls: ids 1..n in insertion order
RECURSIVE InsertMany(_, _, _)
InsertMany(st, id, data) ==
    IF data = <<>> THEN st
    ELSE InsertMany(InsertOne(st, id, Head(data)), id + 1, Tail(data))

InitStores ==
    UNION {{InsertMany(<<>>, 1, [i \in 1..n |-> model_dump(u[i])]) : u \in [1..n -> UserDTO]}
            : n \in 0..MaxInit}

-----------------------------------------------------------------------------
(* The cache client's state (common/cache/redis.py) *)

Keys == {"session:1", "session:2", "user:1"}

NoEntry == [data |-> [enc |-> "nil", of |-> ""], ttl |-> -2]

CNone == [kind |-> "None", b |-> FALSE, n |-> 0, v |-> "", m |-> {}]
CValue(x) == [CNone EXCEPT !.kind = "value", !.v = x]
CBool(x) == [CNone EXCEPT !.kind = "bool", !.b = x]
CInt(x) == [CNone EXCEPT !.kind = "int", !.n = x]
CMap(x) == [CNone EXCEPT !.kind = "map", !.m = x]
CRaise(exc) == [CNone EXCEPT !.kind = "raise", !.v = exc]

\* pattern: the call's argument; kv0: the keyspace the scan saw (history)
NoScan == [active |-> FALSE, keys |-> {}, pattern |-> "", kv0 |-> [k \in Keys |-> NoEntry]]

\* key: the key or pattern argument, "" when the call has none; at: what _client was when
\* the call started; fault: what failed; past: the key's ttl had run out (history)
NoCRet ==
    [op |-> "none", key |-> "", res |-> CNone, at |-> "None", fault |-> "none", past |-> FALSE]

\* no write to the key yet: given is the ttl argument, -1 for None
NeverWritten == [given |-> -1, age |-> 0]

NotReleased == [client |-> 0, pool |-> 0]

\* RedisCache.__init__: no pool, no client
CacheNew ==
    /\ client = "None"
    /\ pool = "None"
    /\ scan = NoScan
    /\ since = [k \in Keys |-> NeverWritten]
    /\ released = NotReleased
    /\ cret = NoCRet

\* no lifespan is running; closes counts the close() calls on mongo_client (history)
NoApp == [phase |-> "none", mongo_client |-> "None", closes |-> 0]

\* the repository runs without the cache: the source never composes them
CacheUnused ==
    /\ CacheNew
    /\ kv = [k \in Keys |-> NoEntry]
    /\ cbudget = 0

Init ==
    /\ store \in InitStores
    /\ nextId = Len(store) + 1
    /\ pc = [c \in Callers |-> "idle"]
    /\ loc = [c \in Callers |-> Frame]
    /\ ret = NoRet
    /\ budget = MaxCalls
    /\ CacheUnused
    /\ app = NoApp

\* one caller alone: the other never calls, so nothing is written between its steps
InitSeq ==
    /\ store \in InitStores
    /\ nextId = Len(store) + 1
    /\ pc = [c \in Callers |-> IF c = "c1" THEN "idle" ELSE "away"]
    /\ loc = [c \in Callers |-> Frame]
    /\ ret = NoRet
    /\ budget = MaxSeqCalls
    /\ CacheUnused
    /\ app = NoApp

\* a call starts.  Idle callers are interchangeable, so when both are idle it
\* is c1 that takes the call; c2 runs the calls that overlap one of c1's.
Begin(c) ==
    /\ pc[c] = "idle"
    /\ c = "c1" \/ pc["c1"] # "idle"
    /\ budget > 0
    /\ budget' = budget - 1

\* a call returns r with its frame f
Return(c, f, r) ==
    /\ pc' = [pc EXCEPT ![c] = "idle"]
    /\ loc' = [loc EXCEPT ![c] = Frame]
    /\ ret' = [op |-> f.op, res |-> r, frame |-> f, prev |-> ret.op]
    /\ UNCHANGED <<cacheVars, app>>

\* a call suspends at label l with frame f
Suspend(c, l, f) ==
    /\ pc' = [pc EXCEPT ![c] = l]
    /\ loc' = [loc EXCEPT ![c] = f]
    /\ UNCHANGED <<ret, cacheVars, app>>

-----------------------------------------------------------------------------
(* UserService.get_user -> UserRepository.get_by_client_id -> select *)

\* get_by_client_id(client): self._crud.select({"client_id": client})
get_by_client_id(st, client_id) == select(st, ByClient(client_id))

GetUser(c, user_id) ==
    /\ Begin(c)
    /\ Return(c, [Frame EXCEPT !.op = "get_user", !.query = ByClient(user_id)],
              get_by_client_id(store, user_id))
    /\ UNCHANGED <<store, nextId>>

(* UserService.create -> UserRepository.create -> MongoDBCRUDRepository.create *)

CreateInsert(c, user) ==
    LET f == [Frame EXCEPT !.op = "create", !.update = model_dump(user),
                           !.inserted_id = ObjectId(nextId)]
    IN  /\ Begin(c)
        /\ nextId <= MaxId
        /\ store' = InsertOne(store, nextId, model_dump(user))
        /\ nextId' = nextId + 1
        /\ IF f.inserted_id.t # "absent"          \* if result.inserted_id:
           THEN Suspend(c, "create_select", f)
           ELSE Return(c, f, RNull)

\* document = await self.select({"_id": result.inserted_id}); document["_id"] = ...
CreateResult(r) ==
    IF r.kind = "null" THEN RRaise("TypeError")
    ELSE RDoc([r.doc EXCEPT !._id = str(r.doc._id)])

CreateSelect(c) ==
    /\ pc[c] = "create_select"
    /\ Return(c, loc[c],
              CreateResult(select(store, [EmptyMap EXCEPT !._id = loc[c].inserted_id])))
    /\ UNCHANGED <<store, nextId, budget>>

(* MongoDBCRUDRepository.select_many *)

SelectMany(c, q, offset, limit) ==
    /\ Begin(c)
    /\ Return(c, [Frame EXCEPT !.op = "select_many", !.query = q],
              RDocs(select_many(store, q, offset, limit)))
    /\ UNCHANGED <<store, nextId>>

(* MongoDBCRUDRepository.update *)

\* (mutant) update_many in place of update_one: every match is patched
UpdateEveryMatch(st, q, p) == UpdateManyDocs(st, q, p)

\* collection.update_one(query, {"$set": update}): the collection afterwards
UpdateOne(st, q, p) ==
    LET i == FirstMatch(st, q)
    IN  IF i = 0 THEN st ELSE [st EXCEPT ![i] = Merge(st[i], p)]

UpdateOneFails(st, q, p) ==
    LET i == FirstMatch(st, q) IN i # 0 /\ IdConflict(st[i], p)

UpdateWrite(c, q, p) ==
    LET f == [Frame EXCEPT !.op = "update", !.query = q, !.update = p,
                           !.store0 = store, !.target = FirstMatch(store, q)]
    IN  /\ Begin(c)
        /\ UNCHANGED nextId
        /\ IF UpdateOneFails(store, q, p)
           THEN /\ UNCHANGED store
                /\ Return(c, f, RRaise("WriteError"))
           ELSE /\ store' = UpdateOne(store, q, p)
                /\ Suspend(c, "update_select", f)

\* return await self.select(query)
UpdateReread(st, f) == select(st, f.query)

UpdateSelect(c) ==
    /\ pc[c] = "update_select"
    /\ Return(c, loc[c], UpdateReread(store, loc[c]))
    /\ UNCHANGED <<store, nextId, budget>>

(* MongoDBCRUDRepository.update_many *)

\* a batch item: item.get("query") / item.get("update") may be None
Item(hq, q, hu, u) == [hasQuery |-> hq, query |-> q, hasUpdate |-> hu, update |-> u]

\* if query and update:
Applies(item) ==
    /\ item.hasQuery /\ NonEmpty(item.query)
    /\ item.hasUpdate /\ NonEmpty(item.update)

\* the next item at or after position i that the loop sends to the store, 0 if none
NextApplied(data, i) ==
    IF \E k \in i..Len(data) : Applies(data[k])
    THEN CHOOSE k \in i..Len(data) :
            Applies(data[k]) /\ \A j \in i..(k - 1) : ~Applies(data[j])
    ELSE 0

UpdateManyFails(st, q, p) == \E i \in 1..Len(st) : Matches(st[i], q) /\ IdConflict(st[i], p)

\* one round of the loop: item k reaches the store, then the loop runs on to
\* the next item it sends or to the return
UpdateManyRound(c, f, k) ==
    LET q == f.data[k].query
        p == f.data[k].update
        g == [f EXCEPT !.modified_count = @ + ModifiedCount(store, q, p),
                       !.sent = @ \cup {k}]
        n == NextApplied(f.data, k + 1)
    IN  IF UpdateManyFails(store, q, p)
        THEN /\ UNCHANGED store
             /\ Return(c, [f EXCEPT !.i = k], RRaise("WriteError"))
        ELSE /\ store' = UpdateManyDocs(store, q, p)
             /\ IF n = 0
                THEN Return(c, [g EXCEPT !.i = k], RInt(g.modified_count))
                ELSE Suspend(c, "update_many_loop", [g EXCEPT !.i = n])

UpdateManyCall(c, data) ==
    LET f == [Frame EXCEPT !.op = "update_many", !.data = data, !.store0 = store]
        k == NextApplied(data, 1)
    IN  /\ Begin(c)
        /\ UNCHANGED nextId
        /\ IF k = 0
           THEN /\ UNCHANGED store
                /\ Return(c, f, RInt(0))
           ELSE UpdateManyRound(c, f, k)

UpdateManyStep(c) ==
    /\ pc[c] = "update_many_loop"
    /\ UpdateManyRound(c, loc[c], loc[c].i)
    /\ UNCHANGED <<nextId, budget>>

(* MongoDBCRUDRepository.delete *)

DeleteRead(c, q) ==
    /\ Begin(c)
    /\ Suspend(c, "delete_write",
               [Frame EXCEPT !.op = "delete", !.query = q, !.store0 = store,
                             !.deleted_documents = select_many(store, q, -1, -1)])
    /\ UNCHANGED <<store, nextId>>

\* (mutant) the documents are read when delete_many runs, not before
DeleteResultReread(st, f) == RDocs(select_many(st, f.query, -1, -1))

\* return deleted_documents
DeleteResult(st, f) == RDocs(f.deleted_documents)

DeleteWrite(c) ==
    LET f == [loc[c] EXCEPT
                !.deleted_count = Len(store) - Len(DeleteMany(store, loc[c].query))]
    IN  /\ pc[c] = "delete_write"
        /\ store' = DeleteMany(store, f.query)
        /\ Return(c, f, DeleteResult(store, f))
        /\ UNCHANGED <<nextId, budget>>

(* MongoDBCRUDRepository.create_many *)

CreateManyInsert(c, data) ==
    /\ Begin(c)
    /\ nextId + Len(data) - 1 <= MaxId
    /\ store' = InsertMany(store, nextId, data)
    /\ nextId' = nextId + Len(data)
    /\ Suspend(c, "create_many_select",
               [Frame EXCEPT !.op = "create_many",
                  !.inserted_ids = {ObjectId(n) : n \in nextId..(nextId + Len(data) - 1)}])

CreateManySelect(c) ==
    /\ pc[c] = "create_many_select"
    /\ Return(c, loc[c],
              RDocs(select_many(store,
                                [EmptyMap EXCEPT !._id = [t |-> "in", v |-> loc[c].inserted_ids]],
                                -1, -1)))
    /\ UNCHANGED <<store, nextId, budget>>

-----------------------------------------------------------------------------
(* Inputs *)

SetPatch == [EmptyMap EXCEPT !.active = "False"]
MovePatch == [EmptyMap EXCEPT !.client_id = "b"]

Items ==
    {Item(TRUE, ByClient("a"), TRUE, SetPatch),
     Item(TRUE, ByActive("True"), TRUE, MovePatch),
     Item(TRUE, EmptyMap, TRUE, SetPatch),
     Item(FALSE, EmptyMap, TRUE, SetPatch),
     Item(TRUE, ByClient("a"), FALSE, EmptyMap)}

Batches == {<<x>> : x \in Items} \cup {<<x, y>> : x \in Items, y \in Items}

ManyData ==
    {<<model_dump(u)>> : u \in UserDTO}
        \cup {<<model_dump(u), model_dump(u)>> : u \in {[client_id |-> "a", active |-> "True"]}}

NextFor(c) ==
    \/ \E k \in ClientIds : GetUser(c, k)
    \/ \E u \in UserDTO : CreateInsert(c, u)
    \/ CreateSelect(c)
    \/ \E q \in Queries, o \in {-1, 1} : SelectMany(c, q, o, o)
    \/ \E q \in Queries, p \in Patches : UpdateWrite(c, q, p)
    \/ UpdateSelect(c)
    \/ \E d \in Batches : UpdateManyCall(c, d)
    \/ UpdateManyStep(c)
    \/ \E q \in Queries : DeleteRead(c, q)
    \/ DeleteWrite(c)
    \/ \E d \in ManyData : CreateManyInsert(c, d)
    \/ CreateManySelect(c)

\* callers interleave at every await
Next == \E c \in Callers : NextFor(c)

Spec == Init /\ [][Next]_vars

SpecSeq == InitSeq /\ [][Next]_vars

-----------------------------------------------------------------------------
(* The cache client (common/cache/redis.py, common/serializers)            *)

Values == {"v1", "v2"}

\* a Python object orjson cannot encode
Unserializable == "<object>"

\* bytes some other program left under a key: not JSON
Garbage == [enc |-> "raw", of |-> "?"]

\* OrjsonSerializer.dumps: JSON bytes, or TypeError for what orjson cannot encode
CanDump(v) == v # Unserializable
dumps(v) == [enc |-> "json", of |-> v]

\* OrjsonSerializer.loads: the value back, or JSONDecodeError on other bytes
CanLoad(b) == b.enc = "json"
loads(b) == b.of

NoneTtl == -1

\* (mutant) the ttl argument is dropped: every value is stored with plain SET
TtlDropped(ttl) == FALSE

\* if ttl: -- None and 0 are falsy
TtlGiven(ttl) == ttl # NoneTtl /\ ttl # 0

Live(k) == kv[k] # NoEntry

\* the history of a key just written with this ttl argument
Written(ttl) == [given |-> ttl, age |-> 0]

\* the seconds since the write are counted up to one past the ttl it gave
Ageing(k) == since[k].given >= 1 /\ since[k].age <= since[k].given

\* more seconds than the ttl given by the last write to k have passed since
PastTtl(k) == since[k].given >= 1 /\ since[k].age > since[k].given

InitKeyspaces ==
    {[k \in Keys |-> NoEntry],
     [k \in Keys |-> IF k = "user:1" THEN [data |-> Garbage, ttl |-> -1] ELSE NoEntry]}

\* a fresh RedisCache beside an idle repository
InitCache ==
    /\ CacheNew
    /\ kv \in InitKeyspaces
    /\ cbudget = MaxCacheCalls
    /\ store = <<>>
    /\ nextId = 1
    /\ pc = [c \in Callers |-> "away"]
    /\ loc = [c \in Callers |-> Frame]
    /\ ret = NoRet
    /\ budget = 0
    /\ app = NoApp

CBegin == cbudget > 0 /\ cbudget' = cbudget - 1

CEnd(op, key, r, at, fault) ==
    /\ cret' = [op |-> op, key |-> key, res |-> r, at |-> at, fault |-> fault,
                past |-> key \in Keys /\ PastTtl(key)]
    /\ UNCHANGED <<repoVars, app>>

\* (mutant) no try/except around the command: the exception leaves the call
Unguarded(r, default, fault) == IF fault # "none" THEN CRaise(fault) ELSE r

\* try: ... return r / except Exception: log, return default
Guarded(r, default, fault) == IF fault # "none" THEN default ELSE r

\* _ensure_connected() runs before the try: RuntimeError when _client is unset
Call(op, key, r, default, fault) ==
    IF client = "None" THEN CEnd(op, key, CRaise("RuntimeError"), client, "none")
    ELSE CEnd(op, key, Guarded(r, default, fault), client, fault)

\* the command took effect: the client is set and nothing failed
Done(fault) == client # "None" /\ fault = "none"

StoreFault(err) == IF err THEN "store" ELSE "none"

CacheGet(k, err) ==
    LET fault == IF err THEN "store"
                 ELSE IF Live(k) /\ ~CanLoad(kv[k].data) THEN "deserialize" ELSE "none"
    IN  /\ CBegin
        /\ Call("get", k, IF Live(k) THEN CValue(loads(kv[k].data)) ELSE CNone, CNone, fault)
        /\ UNCHANGED <<client, pool, kv, scan, since, released>>

CacheSet(k, v, ttl, err) ==
    LET fault == IF ~CanDump(v) THEN "serialize" ELSE StoreFault(err)
    IN  /\ CBegin
        /\ Call("set", k, CBool(TRUE), CBool(FALSE), fault)
        /\ kv' = IF Done(fault)
                 THEN [kv EXCEPT ![k] = [data |-> dumps(v),
                                         ttl |-> IF TtlGiven(ttl) THEN ttl ELSE -1]]
                 ELSE kv
        /\ since' = IF Done(fault) THEN [since EXCEPT ![k] = Written(ttl)] ELSE since
        /\ UNCHANGED <<client, pool, scan, released>>

CacheDelete(k, err) ==
    /\ CBegin
    /\ Call("delete", k, CBool(Live(k)), CBool(FALSE), StoreFault(err))
    /\ kv' = IF Done(StoreFault(err)) THEN [kv EXCEPT ![k] = NoEntry] ELSE kv
    /\ UNCHANGED <<client, pool, scan, since, released>>

CacheExists(k, err) ==
    /\ CBegin
    /\ Call("exists", k, CBool(Live(k)), CBool(FALSE), StoreFault(err))
    /\ UNCHANGED <<client, pool, kv, scan, since, released>>

\* EXPIRE: a time to live of 0 or less removes the key
CacheExpire(k, ttl, err) ==
    /\ CBegin
    /\ Call("expire", k, CBool(Live(k)), CBool(FALSE), StoreFault(err))
    /\ kv' = IF Done(StoreFault(err)) /\ Live(k)
             THEN [kv EXCEPT ![k] = IF ttl <= 0 THEN NoEntry ELSE [@ EXCEPT !.ttl = ttl]]
             ELSE kv
    /\ since' = IF Done(StoreFault(err)) /\ Live(k)
                THEN [since EXCEPT ![k] = Written(ttl)]
                ELSE since
    /\ UNCHANGED <<client, pool, scan, released>>

CacheTtl(k, err) ==
    /\ CBegin
    /\ Call("ttl", k, CInt(kv[k].ttl), CInt(-2), StoreFault(err))
    /\ UNCHANGED <<client, pool, kv, scan, since, released>>

CacheGetMany(keys, err) ==
    LET live == {k \in Range(keys) : Live(k)}
        fault == IF keys = <<>> THEN "none"
                 ELSE IF err THEN "store"
                 ELSE IF \E k \in live : ~CanLoad(kv[k].data) THEN "deserialize"
                 ELSE "none"
    IN  /\ CBegin
        /\ Call("get_many", "", CMap({<<k, loads(kv[k].data)>> : k \in live}), CMap({}), fault)
        /\ UNCHANGED <<client, pool, kv, scan, since, released>>

\* data: a set of <<key, value>> pairs.  With a ttl the SETEX commands go
\* through one MULTI/EXEC pipeline, without one through a single MSET.
CacheSetMany(data, ttl, err) ==
    LET fault == IF data = {} THEN "none"
                 ELSE IF \E e \in data : ~CanDump(e[2]) THEN "serialize"
                 ELSE StoreFault(err)
    IN  /\ CBegin
        /\ Call("set_many", "", CBool(TRUE), CBool(FALSE), fault)
        /\ kv' = IF Done(fault)
                 THEN [k \in Keys |->
                         IF \E e \in data : e[1] = k
                         THEN [data |-> dumps((CHOOSE e \in data : e[1] = k)[2]),
                               ttl |-> IF TtlGiven(ttl) THEN ttl ELSE -1]
                         ELSE kv[k]]
                 ELSE kv
        /\ since' = IF Done(fault)
                    THEN [k \in Keys |->
                            IF \E e \in data : e[1] = k THEN Written(ttl) ELSE since[k]]
                    ELSE since
        /\ UNCHANGED <<client, pool, scan, released>>

CacheDeleteMany(keys, err) ==
    LET fault == IF keys = <<>> THEN "none" ELSE StoreFault(err)
    IN  /\ CBegin
        /\ Call("delete_many", "", CInt(Cardinality({k \in Range(keys) : Live(k)})), CInt(0), fault)
        /\ kv' = IF Done(fault)
                 THEN [k \in Keys |-> IF k \in Range(keys) THEN NoEntry ELSE kv[k]]
                 ELSE kv
        /\ UNCHANGED <<client, pool, scan, since, released>>

\* glob match of the two patterns used: "*" and "<prefix>:*"
GlobMatches(pattern, k) ==
    \/ pattern = "*"
    \/ pattern = "session:*" /\ k \in {"session:1", "session:2"}
    \/ pattern = "user:*" /\ k = "user:1"

\* clear_pattern up to the end of scan_iter; an empty scan returns 0 at once
CacheClearScan(pattern, err) ==
    LET found == {k \in Keys : Live(k) /\ GlobMatches(pattern, k)}
    IN  /\ CBegin
        /\ ~scan.active
        /\ IF client # "None" /\ ~err /\ found # {}
           THEN /\ scan' = [active |-> TRUE, keys |-> found, pattern |-> pattern, kv0 |-> kv]
                /\ UNCHANGED <<cret, repoVars, app>>
           ELSE /\ Call("clear_pattern", pattern, CInt(0), CInt(0), StoreFault(err))
                /\ UNCHANGED scan
        /\ UNCHANGED <<client, pool, kv, since, released>>

\* (mutant) delete(keys[0]): only the first collected key is deleted
CacheClearDeleteFirst(err) ==
    LET first == CHOOSE k \in scan.keys : TRUE
    IN  /\ scan.active
        /\ scan' = NoScan
        /\ CEnd("clear_pattern", scan.pattern,
                Guarded(CInt(IF Live(first) THEN 1 ELSE 0), CInt(0), StoreFault(err)),
                client, StoreFault(err))
        /\ kv' = IF err THEN kv ELSE [kv EXCEPT ![first] = NoEntry]
        /\ UNCHANGED <<client, pool, cbudget, since, released>>

\* clear_pattern's DEL of the collected keys
CacheClearDelete(err) ==
    /\ scan.active
    /\ scan' = NoScan
    /\ CEnd("clear_pattern", scan.pattern,
            Guarded(CInt(Cardinality({k \in scan.keys : Live(k)})), CInt(0), StoreFault(err)),
            client, StoreFault(err))
    /\ kv' = IF err THEN kv ELSE [k \in Keys |-> IF k \in scan.keys THEN NoEntry ELSE kv[k]]
    /\ UNCHANGED <<client, pool, cbudget, since, released>>

\* connect(): a new pool and a new client on it replace what was set
connect ==
    /\ pool' = "open"
    /\ client' = "open"
    /\ released' = NotReleased

\* connect() as a call: after the assignments a ping; a failed ping is re-raised
CacheConnect(ok) ==
    /\ CBegin
    /\ connect
    /\ CEnd("connect", "", IF ok THEN CNone ELSE CRaise("ConnectionError"), client,
            IF ok THEN "none" ELSE "store")
    /\ UNCHANGED <<kv, scan, since>>

\* close(): aclose() on whatever is set; neither attribute is reset to None
close ==
    /\ client' = IF client # "None" THEN "closed" ELSE client
    /\ pool' = IF pool # "None" THEN "closed" ELSE pool
    /\ released' = [client |-> IF client # "None" THEN released.client + 1 ELSE released.client,
                    pool |-> IF pool # "None" THEN released.pool + 1 ELSE released.pool]

CacheClose ==
    /\ CBegin
    /\ close
    /\ CEnd("close", "", CNone, client, "none")
    /\ UNCHANGED <<kv, scan, since>>

\* one second passes on the server: times to live run down, entries expire
CacheTick ==
    /\ \E k \in Keys : kv[k].ttl > 0 \/ Ageing(k)
    /\ kv' = [k \in Keys |->
                IF kv[k].ttl > 1 THEN [kv[k] EXCEPT !.ttl = @ - 1]
                ELSE IF kv[k].ttl = 1 THEN NoEntry
                ELSE kv[k]]
    /\ since' = [k \in Keys |-> IF Ageing(k) THEN [since[k] EXCEPT !.age = @ + 1] ELSE since[k]]
    /\ UNCHANGED <<client, pool, scan, cret, cbudget, released, repoVars, app>>

Ttls == {NoneTtl, 0, 1, MaxTtl}

KeyLists == {<<>>, <<"session:1">>, <<"session:1", "user:1">>}

DataSets ==
    {{}, {<<"session:1", "v1">>}, {<<"session:1", "v2">>, <<"session:2", "v2">>},
     {<<"user:1", Unserializable>>}}

NextCache ==
    \/ \E ok \in BOOLEAN : CacheConnect(ok)
    \/ CacheClose
    \/ \E k \in Keys, err \in BOOLEAN : CacheGet(k, err)
    \/ \E k \in Keys, v \in Values \cup {Unserializable}, t \in Ttls, err \in BOOLEAN :
          CacheSet(k, v, t, err)
    \/ \E k \in Keys, err \in BOOLEAN : CacheDelete(k, err)
    \/ \E k \in Keys, err \in BOOLEAN : CacheExists(k, err)
    \/ \E k \in Keys, t \in {0, MaxTtl}, err \in BOOLEAN : CacheExpire(k, t, err)
    \/ \E k \in Keys, err \in BOOLEAN : CacheTtl(k, err)
    \/ \E ks \in KeyLists, err \in BOOLEAN : CacheGetMany(ks, err)
    \/ \E d \in DataSets, t \in Ttls, err \in BOOLEAN : CacheSetMany(d, t, err)
    \/ \E ks \in KeyLists, err \in BOOLEAN : CacheDeleteMany(ks, err)
    \/ \E p \in {"session:*", "*"}, err \in BOOLEAN : CacheClearScan(p, err)
    \/ \E err \in BOOLEAN : CacheClearDelete(err)
    \/ CacheTick

SpecCache == InitCache /\ [][NextCache]_vars

-----------------------------------------------------------------------------
(* The process lifespan (__main__.py)                                       *)

\* the process starts: nothing is created yet, the users collection is as
\* earlier runs left it
InitLife ==
    /\ store \in InitStores
    /\ nextId = Len(store) + 1
    /\ pc = [c \in Callers |-> "idle"]
    /\ loc = [c \in Callers |-> Frame]
    /\ ret = NoRet
    /\ budget = MaxCalls
    /\ CacheNew
    /\ kv \in InitKeyspaces
    /\ cbudget = 0
    /\ app = [NoApp EXCEPT !.phase = "start"]

\* mongo_client = AsyncIOMotorClient(...): the handle is created, nothing is awaited
LifeMongo ==
    /\ app.phase = "start"
    /\ app' = [app EXCEPT !.phase = "mongo", !.mongo_client = "open"]
    /\ UNCHANGED <<repoVars, cacheVars>>

\* redis_cache = RedisCache(...); await redis_cache.connect(): outside the try,
\* so an exception of connect() ends the lifespan where it stands
LifeRedis(ok) ==
    /\ app.phase = "mongo"
    /\ connect
    /\ cret' = [NoCRet EXCEPT !.op = "connect",
                              !.res = IF ok THEN CNone ELSE CRaise("ConnectionError"),
                              !.fault = IF ok THEN "none" ELSE "store"]
    /\ app' = [app EXCEPT !.phase = IF ok THEN "serving" ELSE "failed"]
    /\ UNCHANGED <<repoVars, kv, scan, cbudget, since>>

\* between yield and shutdown the routers serve GET /user/{client_id} ...
ServeGetUser(c, client_id) == app.phase = "serving" /\ GetUser(c, client_id)

\* ... and POST /user/create
ServeCreate(c, body) == app.phase = "serving" /\ CreateInsert(c, Validate(body))

ServeCreateSelect(c) == app.phase = "serving" /\ CreateSelect(c)

\* finally: await redis_cache.close()
LifeCloseRedis ==
    /\ app.phase = "serving"
    /\ close
    /\ cret' = [NoCRet EXCEPT !.op = "close", !.at = client]
    /\ app' = [app EXCEPT !.phase = "closing"]
    /\ UNCHANGED <<repoVars, kv, scan, cbudget, since>>

\* mongo_client.close()
LifeCloseMongo ==
    /\ app.phase = "closing"
    /\ app' = [app EXCEPT !.phase = "stopped", !.mongo_client = "closed", !.closes = @ + 1]
    /\ UNCHANGED <<repoVars, cacheVars>>

NextLife ==
    \/ LifeMongo
    \/ \E ok \in BOOLEAN : LifeRedis(ok)
    \/ \E c \in Callers, k \in ClientIds : ServeGetUser(c, k)
    \/ \E c \in Callers, body \in Bodies : ServeCreate(c, body)
    \/ \E c \in Callers : ServeCreateSelect(c)
    \/ LifeCloseRedis
    \/ LifeCloseMongo

SpecLife == InitLife /\ [][NextLife]_vars

-----------------------------------------------------------------------------
(* Vocabulary of the properties *)

Matching(st, q) == {i \in 1..Len(st) : Matches(st[i], q)}

\* d2 is d with exactly the fields p names overwritten
PatchedBy(d, d2, p) ==
    /\ d2._id = d._id
    /\ \A f \in Fields : d2[f] = IF p[f] # ABSENT THEN p[f] ELSE d[f]

\* the document as the repository reports it: identifier as a string
Reported(d) == [d EXCEPT !._id = [t |-> "str", v |-> d._id.v]]

\* the step in which caller c's call returns
Returns(c) ==
    /\ pc'[c] = "idle"
    /\ \/ pc[c] \notin {"idle", "away"}
       \/ pc[c] = "idle" /\ budget' # budget /\ (c = "c1" \/ pc["c1"] # "idle")

\* st2 is st without the documents at the positions outside Keep, order kept
KeepsExactly(st, st2, Keep) ==
    /\ Len(st2) = Cardinality(Keep)
    /\ \A i \in Keep : st2[Cardinality({j \in Keep : j <= i})] = st[i]

-----------------------------------------------------------------------------
(* Repository: delete *)

\* C1: delete(q) returns exactly the documents that matched q when it read
\* the collection, including those another caller removed before its
\* delete_many ran; its delete_many leaves no document matching q and leaves
\* every other document as it was.
DeleteReturnsReadSnapshot ==
    /\ [](ret.op = "delete" =>
            LET f == ret.frame
                M == Matching(f.store0, f.query)
            IN  /\ ret.res.kind = "docs"
                /\ Len(ret.res.docs) = Cardinality(M)
                /\ Range(ret.res.docs) = {f.store0[i] : i \in M})
    /\ [][\A c \in Callers :
            (pc[c] = "delete_write" /\ pc'[c] = "idle") =>
                /\ Matching(store', loc[c].query) = {}
                /\ KeepsExactly(store, store',
                                (1..Len(store)) \ Matching(store, loc[c].query))]_vars

\* a delete has reported a document that was gone before its delete_many ran
DeleteReportedVanished ==
    /\ ret.op = "delete"
    /\ Len(ret.res.docs) > ret.frame.deleted_count

\* C2: a document inserted after delete(q) read the collection is not in the
\* list delete(q) returns, even when it matches q and delete_many removes it.
DeleteOmitsLateInsert ==
    ret.op = "delete" =>
        \A d \in Range(ret.res.docs) :
            \E i \in 1..Len(ret.frame.store0) : ret.frame.store0[i]._id = d._id

\* a delete removed more documents than it read: a matching insert came between
DeleteRemovedLateInsert ==
    /\ ret.op = "delete"
    /\ ret.frame.deleted_count > Len(ret.res.docs)

-----------------------------------------------------------------------------
(* Repository: update *)

UpdateAccepted == ret.op = "update" /\ ret.res.kind # "WriteError"

\* C3 as claimed: with no other writer, update(q, p) returns the post-update
\* view of the document it patched, for every p.
UpdateReturnsPatchedAlways ==
    (UpdateAccepted /\ ret.frame.target # 0) =>
        /\ ret.res.kind = "doc"
        /\ PatchedBy(Reported(ret.frame.store0[ret.frame.target]), ret.res.doc,
                     ret.frame.update)

\* C3: update(q, p) merges p into the first document matching q, leaving the
\* fields p does not name; with no other writer it returns the post-update
\* view of that document whenever the patched document still matches q.
UpdateReturnsPatchedWhenStillMatching ==
    /\ [][\A c \in Callers :
            (pc[c] = "idle" /\ pc'[c] = "update_select") =>
                LET t == loc'[c].target
                IN  /\ Len(store') = Len(store)
                    /\ \A i \in 1..Len(store) :
                         IF i = t THEN PatchedBy(store[i], store'[i], loc'[c].update)
                         ELSE store'[i] = store[i]
                    /\ t = 0 <=> Matching(store, loc'[c].query) = {}
                    /\ t # 0 => t \in Matching(store, loc'[c].query)
                                /\ \A j \in Matching(store, loc'[c].query) : t <= j]_vars
    /\ [][\A c \in Callers :
            (pc[c] = "update_select" /\ pc'[c] = "idle" /\ loc[c].target # 0
                /\ Matches(store[loc[c].target], loc[c].query)) =>
                    /\ ret'.res.kind = "doc"
                    /\ ret'.res.doc = Reported(store[loc[c].target])
                    /\ PatchedBy(Reported(loc[c].store0[loc[c].target]), ret'.res.doc,
                                 loc[c].update)]_vars

\* an update changed the document it matched and returned its new view
UpdateReturnedChangedDoc ==
    /\ UpdateAccepted
    /\ ret.frame.target # 0
    /\ ret.res.kind = "doc"
    /\ ret.res.doc._id.v = ret.frame.store0[ret.frame.target]._id.v
    /\ ret.res.doc # Reported(ret.frame.store0[ret.frame.target])

-----------------------------------------------------------------------------
(* Repository: update_many *)

\* the documents of st that item q, p would change
ChangedBy(st, q, p) == {i \in 1..Len(st) : Matches(st[i], q) /\ ~PatchedBy(st[i], st[i], p)}

\* st after item q, p
AfterItem(st, q, p) ==
    [i \in 1..Len(st) |->
        IF Matches(st[i], q)
        THEN [_id |-> st[i]._id,
              client_id |-> IF p.client_id # ABSENT THEN p.client_id ELSE st[i].client_id,
              active |-> IF p.active # ABSENT THEN p.active ELSE st[i].active]
        ELSE st[i]]

\* update_many returned from a batch of two items that both reached the store
TwoItemsCounted ==
    /\ ret.op = "update_many"
    /\ ret.res.kind = "int"
    /\ Len(ret.frame.data) = 2
    /\ ret.frame.sent = {1, 2}

\* C4 as claimed: the count is the sum of what each item would change on the
\* collection as the call found it, each item counted on its own.
BatchCountIndependent ==
    TwoItemsCounted =>
        LET f == ret.frame
        IN  ret.res.n =
                Cardinality(ChangedBy(f.store0, f.data[1].query, f.data[1].update))
                    + Cardinality(ChangedBy(f.store0, f.data[2].query, f.data[2].update))

\* C4: the count is the sum of what each item changed when it was applied,
\* the second item on the collection as the first left it; a document both
\* items change counts twice, one the first item already brought to the
\* second's values, or moved out of its query, does not count again.
BatchCountSequential ==
    TwoItemsCounted =>
        LET f == ret.frame
            s1 == AfterItem(f.store0, f.data[1].query, f.data[1].update)
        IN  ret.res.n =
                Cardinality(ChangedBy(f.store0, f.data[1].query, f.data[1].update))
                    + Cardinality(ChangedBy(s1, f.data[2].query, f.data[2].update))

\* a batch whose second item found the collection changed by the first
BatchItemsOverlapped ==
    /\ TwoItemsCounted
    /\ LET f == ret.frame
           s1 == AfterItem(f.store0, f.data[1].query, f.data[1].update)
       IN  /\ ChangedBy(f.store0, f.data[1].query, f.data[1].update) # {}
           /\ ChangedBy(s1, f.data[2].query, f.data[2].update)
                # ChangedBy(f.store0, f.data[2].query, f.data[2].update)

\* C5: update_many skips an item exactly when its query or its patch is
\* missing; every item that carries both reaches the store.
BatchSkipsOnlyMissing ==
    (ret.op = "update_many" /\ ret.res.kind = "int") =>
        ret.frame.sent =
            {k \in 1..Len(ret.frame.data) :
                ret.frame.data[k].hasQuery /\ ret.frame.data[k].hasUpdate}

-----------------------------------------------------------------------------
(* Repository: create, identifiers *)

\* C6: create ends by returning the inserted document, identifier as a
\* string, or null, whatever the other callers do meanwhile.
CreateReturnsDocOrNull ==
    ret.op = "create" =>
        \/ ret.res.kind = "null"
        \/ /\ ret.res.kind = "doc"
           /\ ret.res.doc._id = [t |-> "str", v |-> ret.frame.inserted_id.v]

\* C7: every document an operation returns carries its identifier as a string.
ReturnedIdsAreStrings ==
    /\ ret.res.kind = "doc" => ret.res.doc._id.t = "str"
    /\ \A d \in Range(ret.res.docs) : d._id.t = "str"

IdsOf(s) == [i \in 1..Len(s) |-> s[i]._id]

\* C8: identifiers are unique in the collection, create reports the
\* identifier the store assigned, and no step gives a stored document another
\* identifier: an insert appends fresh ones, a delete only removes, and every
\* other step (select, update, update_many) leaves them in place.
IdentifiersStable ==
    /\ [](/\ \A i, j \in 1..Len(store) : i # j => store[i]._id # store[j]._id
          /\ \A i \in 1..Len(store) : store[i]._id.t = "ObjectId" /\ store[i]._id.v < nextId
          /\ (ret.op = "create" /\ ret.res.kind = "doc") =>
                ret.res.doc._id = [t |-> "str", v |-> ret.frame.inserted_id.v])
    /\ [][IF nextId' # nextId
            THEN SubSeq(IdsOf(store'), 1, Len(store)) = IdsOf(store)
          ELSE IF Len(store') < Len(store)
            THEN Range(IdsOf(store')) \subseteq Range(IdsOf(store))
          ELSE IdsOf(store') = IdsOf(store)]_vars

\* after a create, an update tried to give a document another identifier
IdChangeRefused ==
    /\ ret.op = "update"
    /\ ret.prev = "create"
    /\ ret.res.kind = "WriteError"
    /\ Len(store) >= 2

-----------------------------------------------------------------------------
(* Service: create, then get_user *)

\* the step in which get_user(c) returns right after create returned a
\* document with client_id c
GetUserAfterCreate ==
    /\ ret.op = "create"
    /\ ret.res.kind = "doc"
    /\ \E c \in Callers : Returns(c)
    /\ ret'.op = "get_user"
    /\ ret'.frame.query.client_id = ret.res.doc.client_id

\* C9 as claimed: get_user(c) right after create returns create's document,
\* whatever else the collection holds.
GetUserReturnsCreatedAlways == [][GetUserAfterCreate => ret'.res = ret.res]_vars

\* C9: get_user(c) right after create returns create's document when no
\* other stored document has client_id c.
GetUserReturnsCreatedWhenOnly ==
    [][(/\ GetUserAfterCreate
        /\ \A i \in 1..Len(store) :
              store[i].client_id = ret.res.doc.client_id
                  => store[i]._id.v = ret.res.doc._id.v)
            => ret'.res = ret.res]_vars

\* get_user returned the document the create before it had inserted
GetUserReturnedCreated ==
    /\ ret.op = "get_user"
    /\ ret.prev = "create"
    /\ ret.res.kind = "doc"
    /\ ret.res.doc._id.v = nextId - 1

CacheOps ==
    {"get", "set", "delete", "exists", "expire", "get_many", "set_many",
     "delete_many", "clear_pattern", "ttl"}

\* what each operation's except branch returns
SafeDefault(op) ==
    CASE op = "get" -> CNone
      [] op \in {"set", "delete", "exists", "expire", "set_many"} -> CBool(FALSE)
      [] op = "get_many" -> CMap({})
      [] op \in {"delete_many", "clear_pattern"} -> CInt(0)
      [] op = "ttl" -> CInt(-2)

\* the last cache operation did not raise, and gave its safe default if
\* the store or the serializer failed
Downgraded ==
    /\ cret.res.kind # "raise"
    /\ cret.fault # "none" => cret.res = SafeDefault(cret.op)

\* C10 as claimed: in every state of the client, never connected included,
\* a cache operation never raises and answers a failure with its safe default.
CacheNeverRaises == cret.op \in CacheOps => Downgraded

\* C10: a cache operation called on a client that connect() has set
\* (connected, failed to connect, closed) never raises and answers a store or
\* serialization failure with its safe default; called on a never-connected
\* client it raises RuntimeError.
CacheSafeOnceClientSet ==
    cret.op \in CacheOps =>
        IF cret.at = "None" THEN cret.res = CRaise("RuntimeError") ELSE Downgraded

\* an operation on a closed client met a failure and returned its safe default
CacheFailureDowngraded ==
    /\ cret.op \in CacheOps
    /\ cret.at = "closed"
    /\ cret.fault \in {"store", "serialize", "deserialize"}
    /\ cret.res = SafeDefault(cret.op)

\* C11: once more than t seconds have passed since set(k, v, ttl=t), t >= 1,
\* with no later write to k, get(k) returns null, ttl(k) returns -2 and
\* get_many returns no entry for k.
ExpiredNeverRead ==
    [][\A k \in Keys :
          PastTtl(k) =>
            /\ \A err \in BOOLEAN : CacheGet(k, err) => cret'.res = CNone
            /\ \A err \in BOOLEAN : CacheTtl(k, err) => cret'.res = CInt(-2)
            /\ \A ks \in KeyLists, err \in BOOLEAN :
                  CacheGetMany(ks, err) => \A e \in cret'.res.m : e[1] # k]_vars

\* get(k) reached the store after k's ttl had run out and returned null
ExpiredReadAsNull ==
    /\ cret.op = "get"
    /\ cret.fault = "none"
    /\ cret.res = CNone
    /\ cret.past

\* C12: an entry without expiration was last written with no ttl argument
\* (a write that passes a ttl, 0 included, leaves no such entry), and ttl(k)
\* returns -2 only when k is absent.
NonExpiringOnlyWithoutTtl ==
    [][/\ \A k \in Keys :
            kv'[k] # NoEntry /\ kv'[k].ttl = -1 => since'[k].given = NoneTtl
       /\ \A k \in Keys, err \in BOOLEAN :
            CacheTtl(k, err) /\ cret'.res = CInt(-2) => ~Live(k)]_vars

\* C13: close() after connect() leaves the client and the pool closed and
\* released exactly once, however many times it is called; close() on a
\* client that never connected changes nothing.
CloseIdempotent ==
    cret.op = "close" =>
        IF cret.at = "None"
        THEN client = "None" /\ pool = "None" /\ released = NotReleased
        ELSE client = "closed" /\ pool = "closed" /\ released = [client |-> 1, pool |-> 1]

\* every key of the mapping holds its new value
AllStored(data, st) == \A e \in data : st[e[1]].data = dumps(e[2])

\* C14: set_many stores all keys of the mapping in one step or none of them,
\* so that no reader sees a part of it; it returns true only if every key was
\* stored, and a call that passes a ttl leaves every key with that expiry.
SetManyAllOrNothing ==
    [][\A data \in DataSets, ttl \in Ttls, err \in BOOLEAN :
          CacheSetMany(data, ttl, err) =>
            /\ AllStored(data, kv') \/ kv' = kv
            /\ cret'.res = CBool(TRUE) => AllStored(data, kv')
            /\ cret'.res = CBool(TRUE) /\ ttl # NoneTtl =>
                  \A e \in data : kv'[e[1]].ttl = ttl]_vars

\* C15: when nothing was written between its scan and its delete,
\* clear_pattern(p) removes every key matching p, leaves every other key with
\* its value, and returns the number of keys it removed.
ClearPatternExact ==
    [][/\ \A err \in BOOLEAN :
            CacheClearDelete(err) /\ ~err /\ kv = scan.kv0 =>
              /\ \A k \in Keys :
                    kv'[k] = IF GlobMatches(scan.pattern, k) THEN NoEntry ELSE kv[k]
              /\ cret'.res =
                    CInt(Cardinality({k \in Keys : Live(k) /\ GlobMatches(scan.pattern, k)}))
       /\ \A p \in {"session:*", "*"} :
            CacheClearScan(p, FALSE) /\ client # "None" /\ ~scan'.active =>
              /\ \A k \in Keys : GlobMatches(p, k) => ~Live(k)
              /\ kv' = kv
              /\ cret'.res = CInt(0)]_vars

\* clear_pattern("session:*") returned 2 and of the three keys only user:1 is left
ClearedSessionsOnly ==
    /\ cret.op = "clear_pattern"
    /\ cret.key = "session:*"
    /\ cret.res = CInt(2)
    /\ ~Live("session:1") /\ ~Live("session:2")
    /\ Live("user:1")

\* C16: the document create(body) stores has no field the body left unset
\* and no field whose value is empty (empty string or null).
CreateStripsUnsetAndEmpty ==
    [][\A c \in Callers, body \in Bodies :
          CreateInsert(c, Validate(body)) =>
            \A f \in Fields :
              /\ body[f] = ABSENT => store'[Len(store')][f] = ABSENT
              /\ store'[Len(store')][f] \notin {"", "None"}]_vars

\* a handle is released exactly once when it was created at all
ReleasedOnce(handle, count) == handle = "None" \/ (handle = "closed" /\ count = 1)

\* C17: when the lifespan has ended, after shutdown or after a failed
\* start, the MongoDB client and the cache's client and pool, if created, have
\* each been released exactly once and none is open.
LifespanReleasesAll ==
    app.phase \in {"failed", "stopped"} =>
        /\ ReleasedOnce(app.mongo_client, app.closes)
        /\ ReleasedOnce(client, released.client)
        /\ ReleasedOnce(pool, released.pool)

\* C18: every document the delete_many of a delete(q) removes is in the list
\* that delete(q) returns.
DeleteRemovesOnlyReported ==
    [][\A c \in Callers :
          (pc[c] = "delete_write" /\ pc'[c] = "idle") =>
              \A i \in 1..Len(store) :
                  (\A j \in 1..Len(store') : store'[j]._id # store[i]._id) =>
                      \E d \in Range(ret'.res.docs) : d._id.v = store[i]._id.v]_vars

\* C19: the update_one of update(q, p) changes at most one document, the
\* first that matches q, by merging p into it, and leaves all others as they
\* were; when none matches the collection is unchanged and, the collection
\* being still the same at the re-read, update returns null.
UpdateChangesAtMostOne ==
    /\ [][\A c \in Callers :
            (pc[c] = "idle" /\ pc'[c] = "update_select") =>
                LET M == Matching(store, loc'[c].query)
                    Changed == {i \in 1..Len(store) : store'[i] # store[i]}
                IN  /\ Len(store') = Len(store)
                    /\ Cardinality(Changed) <= 1
                    /\ M = {} => store' = store
                    /\ \A m \in M :
                         IF \A j \in M : m <= j
                         THEN PatchedBy(store[m], store'[m], loc'[c].update)
                         ELSE store'[m] = store[m]]_vars
    /\ [][\A c \in Callers : Returns(c) /\ ret'.op = "update" => store' = store]_vars
    /\ [][\A c \in Callers :
            (pc[c] = "update_select" /\ pc'[c] = "idle"
                /\ loc[c].target = 0 /\ store = loc[c].store0) =>
                    ret'.res = RNull]_vars

\* an update met two matching documents and changed the first of them only
UpdatePatchedFirstOfTwo ==
    /\ ret.op = "update"
    /\ ret.frame.target = 1
    /\ Matching(ret.frame.store0, ret.frame.query) = {1, 2}
    /\ Len(store) = 2
    /\ store[1] # ret.frame.store0[1]
    /\ store[2] = ret.frame.store0[2]

====
